---- MODULE Spec2Model ----
(***************************************************************************)
(* Model of whm-alert (src/src/index.ts): the commander action handler     *)
(* that polls the latest CI run (checkPipeline), the closed-over           *)
(* lastRunId, the setInterval timer and the alert dispatcher (sendAlert).  *)
(*                                                                         *)
(* The program is a single-threaded event loop.  Every action below is one *)
(* run-to-completion step: the synchronous code between two awaits.  The   *)
(* answers of the remote endpoints (the CI platform, the Slack webhook,    *)
(* the generic webhook) are inputs: a response, an error, or no answer at  *)
(* all (no axios call in the source sets a timeout).                       *)
(***************************************************************************)
EXTENDS Integers, FiniteSets, Sequences, TLC

\* ---- bounds ----
MaxCycles == 3          \* number of checkPipeline invocations explored
MaxId == 2              \* run ids the platform may report are 1..MaxId

Null == "null"          \* a null / undefined field of a run
NoRun == [id |-> 0, conclusion |-> Null, status |-> Null]

\* line 94: String(latestRun.id), the decimal string of the numeric id.
RunIdOf(run) == ToString(run.id)
\* lastRunId is only ever tested for truthiness (lines 98, 107), so its
\* initial null is written as the one falsy string, the empty one.
NullId == ""
Truthy(s) == s # ""

Cycles == 1..MaxCycles
RunIds == 1..MaxId

\* What the platforms report.  GitHub: workflow_runs[0] with a status and a
\* conclusion (null while the run is in progress).  GitLab: pipelines[0] with
\* a status and no conclusion field.
GitHubRuns ==
    {[id |-> i, conclusion |-> c, status |-> IF c = Null THEN "in_progress" ELSE "completed"] :
        i \in RunIds, c \in {"success", "failure", "cancelled", Null}}
GitLabRuns ==
    {[id |-> i, conclusion |-> Null, status |-> s] :
        i \in RunIds, s \in {"success", "failed", "running"}}
RunsOf(platform) ==
    IF platform = "github" THEN GitHubRuns
    ELSE IF platform = "gitlab" THEN GitLabRuns
    ELSE {}

Platforms == {"github", "gitlab", "other"}

Owners == {"acme"}
Repos == {"api"}

\* AlertConfig, reduced to the fields that are read; the two URLs are
\* reduced to whether they are set.
Configs ==
    [platform : Platforms, owner : Owners, repo : Repos,
     slackWebhook : BOOLEAN, webhookUrl : BOOLEAN, watch : BOOLEAN]

VARIABLES
    config,       \* the AlertConfig built from the command line
    pc,           \* position of the action handler / process
    lastRunId,    \* the closed-over let lastRunId (NullId or String(id))
    cyc,          \* per checkPipeline invocation: its position and what it did
    started,      \* number of checkPipeline invocations started so far
    lastObs       \* runId seen by the latest resolved fetch (NullId: none yet)

vars == <<config, pc, lastRunId, cyc, started, lastObs>>

\* request bodies of a sink that has not been posted to
NoSlackBody == [text |-> "", color |-> "", repository |-> "", status |-> "", details |-> ""]
NoWebhookBody == [event |-> "", repository |-> "", run |-> NoRun]

IdleCycle ==
    [pc |-> "idle", run |-> NoRun, kind |-> "none", fetches |-> 0,
     slackAtt |-> 0, webhookAtt |-> 0, slackRes |-> "none", webhookRes |-> "none",
     outcome |-> "none", seenLast |-> NullId, prevObs |-> NullId,
     answer |-> "none"]

\* ---- pure pieces of checkPipeline / sendAlert ----

\* mutant of NoSinks: the startup validation is missing
NoSinks_Unchecked(cfg) == FALSE

\* line 53: neither webhook configured
NoSinks(cfg) == ~cfg.webhookUrl /\ ~cfg.slackWebhook

\* lines 68, 80: the platforms for which a request is issued
Fetches(cfg) == cfg.platform \in {"github", "gitlab"}

\* mutant of StatusOf: the status field is read on every platform
StatusOf_AlwaysStatus(cfg, run) == run.status

\* line 95
StatusOf(cfg, run) == IF cfg.platform = "github" THEN run.conclusion ELSE run.status

\* mutant of IsNewRun: the baseline test `lastRunId &&` is missing
IsNewRun_NoBaseline(last, runId) == runId # last

\* line 98
IsNewRun(last, runId) == Truthy(last) /\ runId # last

\* mutant of AlertKind: only the GitHub spelling of a failed run is tested
AlertKind_NoFailed(status) ==
    IF status = "failure" THEN "failure"
    ELSE IF status = "success" THEN "recovery"
    ELSE "none"

\* lines 99-103
AlertKind(status) ==
    IF status = "failure" \/ status = "failed" THEN "failure"
    ELSE IF status = "success" \/ status = "success" THEN "recovery"
    ELSE "none"

\* mutant of StoreFirst: the observed id is stored on every poll
StoreFirst_Always(last, runId) == runId

\* lines 107-108
StoreFirst(last, runId) == IF ~Truthy(last) THEN runId ELSE last

\* mutant of OnFetchError: the catch resets the baseline
OnFetchError_Reset(last) == NullId

\* lines 114-116: the catch of checkPipeline leaves lastRunId alone
OnFetchError(last) == last

\* line 131
RepoName(cfg) == cfg.owner \o "/" \o cfg.repo

\* mutant of SlackPayload: the two colours are swapped
SlackPayload_Swapped(cfg, type) ==
    LET repoName == RepoName(cfg)
    IN [text |-> (IF type = "failure" THEN "Pipeline Failed: " ELSE "Pipeline Recovered: ")
                    \o repoName,
        color |-> IF type = "failure" THEN "#00ff00" ELSE "#ff0000",
        repository |-> repoName,
        status |-> IF type = "failure" THEN "FAILED" ELSE "PASSED",
        details |-> IF type = "failure"
                    THEN "The pipeline has failed. Check the logs for more details."
                    ELSE "The pipeline is now passing again."]

\* lines 132-150: the Slack body (text, attachments[0].color and the values
\* of the three attachment fields)
SlackPayload(cfg, type) ==
    LET repoName == RepoName(cfg)
    IN [text |-> (IF type = "failure" THEN "Pipeline Failed: " ELSE "Pipeline Recovered: ")
                    \o repoName,
        color |-> IF type = "failure" THEN "#ff0000" ELSE "#00ff00",
        repository |-> repoName,
        status |-> IF type = "failure" THEN "FAILED" ELSE "PASSED",
        details |-> IF type = "failure"
                    THEN "The pipeline has failed. Check the logs for more details."
                    ELSE "The pipeline is now passing again."]

\* lines 165-170: the generic webhook body (the timestamp is left out)
WebhookPayload(cfg, run, type) ==
    [event |-> type, repository |-> RepoName(cfg), run |-> run]

\* line 153 / 163: first await of sendAlert
FirstSink(cfg) ==
    IF cfg.slackWebhook THEN "slack"
    ELSE IF cfg.webhookUrl THEN "webhook"
    ELSE "return"

\* mutant of AfterSlack: no try/catch around the Slack post
AfterSlack_Propagate(cfg, res) ==
    IF res = "error" THEN "throw"
    ELSE IF cfg.webhookUrl THEN "webhook" ELSE "return"

\* lines 154-163: after the Slack post settled; res is "ok" (resolved) or
\* "error" (rejected, caught at line 157).  "throw" would leave sendAlert.
AfterSlack(cfg, res) ==
    IF cfg.webhookUrl THEN "webhook" ELSE "return"

\* mutant of AfterWebhook: no try/catch around the webhook post
AfterWebhook_Propagate(cfg, res) == IF res = "error" THEN "throw" ELSE "return"

\* lines 164-176: after the webhook post settled (rejection caught at line 172)
AfterWebhook(cfg, res) == "return"

\* mutant of AfterInitial: the timer is installed without testing --watch
AfterInitial_AlwaysWatch(cfg) == "watching"

\* lines 120-125: continuation of `await checkPipeline()`
AfterInitial(cfg) == IF cfg.watch THEN "watching" ELSE "done"

Alive == pc \in {"initial", "watching"}

\* pc of the handler once invocation c has returned
PcAfter(c) == IF c = 1 /\ pc = "initial" THEN AfterInitial(config) ELSE pc

Init ==
    /\ config \in Configs
    /\ pc = "start"
    /\ lastRunId = NullId
    /\ cyc = [c \in Cycles |-> IdleCycle]
    /\ started = 0
    /\ lastObs = NullId

\* ---- steps of one checkPipeline invocation ----

\* The program only compares run ids for equality (line 98), so the ids the
\* platform reports are numbered in the order in which the program first
\* sees them: an answer carries an id seen before or the next unused one.
KnownIds == {cyc[c].run.id : c \in Cycles} \ {NoRun.id}
ReportableRuns ==
    {run \in RunsOf(config.platform) : run.id <= Cardinality(KnownIds) + 1}

\* lines 64-92 up to the first await: the request is issued, or, for a
\* platform that is neither github nor gitlab, latestRun stays null and the
\* invocation returns at line 92.
CallCheck(rec) ==
    IF Fetches(config)
    THEN [rec EXCEPT !.pc = "fetch", !.fetches = @ + 1]
    ELSE [rec EXCEPT !.pc = "done", !.outcome = "norun"]

\* mutant of EnterSink: the webhook post is issued but not awaited
EnterSink_NoAwaitWebhook(rec, sink) ==
    IF sink = "slack"
    THEN [rec EXCEPT !.pc = "slack", !.slackAtt = @ + 1]
    ELSE IF sink = "webhook"
    THEN [rec EXCEPT !.pc = "done", !.webhookAtt = @ + 1, !.outcome = "ok"]
    ELSE IF sink = "throw" THEN [rec EXCEPT !.pc = "done", !.outcome = "error"]
    ELSE [rec EXCEPT !.pc = "done", !.outcome = "ok"]

\* sendAlert moving to its next await, returning, or throwing into the
\* catch of checkPipeline (line 114).
EnterSink(rec, sink) ==
    IF sink = "slack"
    THEN [rec EXCEPT !.pc = "slack", !.slackAtt = @ + 1]
    ELSE IF sink = "webhook"
    THEN [rec EXCEPT !.pc = "webhook", !.webhookAtt = @ + 1]
    ELSE IF sink = "throw" THEN [rec EXCEPT !.pc = "done", !.outcome = "error"]
    ELSE [rec EXCEPT !.pc = "done", !.outcome = "ok"]

\* lines 155, 165: the bodies invocation c has posted.  sendAlert builds
\* them from its arguments (config, run, type), which checkPipeline passes
\* at lines 100/102, so they are functions of what the invocation holds.
SlackBody(c) ==
    IF cyc[c].slackAtt >= 1 THEN SlackPayload(config, cyc[c].kind) ELSE NoSlackBody
WebhookBody(c) ==
    IF cyc[c].webhookAtt >= 1
    THEN WebhookPayload(config, cyc[c].run, cyc[c].kind)
    ELSE NoWebhookBody

\* lastRunId once the invocation has moved to `next`: a return from
\* sendAlert runs lines 107-112, a throw skips them.
LastAfter(next, runId) ==
    IF next = "return" THEN StoreFirst(lastRunId, runId) ELSE lastRunId

\* lines 40-56, 120: the action handler starts
Start ==
    /\ pc = "start"
    /\ IF NoSinks(config)
       THEN /\ pc' = "exited"
            /\ UNCHANGED <<cyc, started>>
       ELSE /\ started' = 1
            /\ cyc' = [cyc EXCEPT ![1] = CallCheck(@)]
            /\ pc' = IF cyc'[1].pc = "done" THEN AfterInitial(config) ELSE "initial"
    /\ UNCHANGED <<config, lastRunId, lastObs>>

\* line 124: the interval timer fires and calls checkPipeline
Tick ==
    /\ pc = "watching"
    /\ started < MaxCycles
    /\ started' = started + 1
    /\ cyc' = [cyc EXCEPT ![started + 1] = CallCheck(@)]
    /\ UNCHANGED <<config, pc, lastRunId, lastObs>>

\* lines 79/89, 92-112: the request resolved with a latest run
FetchRun(c) ==
    /\ Alive
    /\ cyc[c].pc = "fetch"
    /\ \E run \in ReportableRuns :
         LET runId == RunIdOf(run)
             status == StatusOf(config, run)
             kind == IF IsNewRun(lastRunId, runId) THEN AlertKind(status) ELSE "none"
             rec == [cyc[c] EXCEPT !.run = run, !.kind = kind, !.answer = "run",
                                   !.seenLast = lastRunId, !.prevObs = lastObs]
             next == IF kind # "none" THEN FirstSink(config) ELSE "return"
         IN /\ cyc' = [cyc EXCEPT ![c] = EnterSink(rec, next)]
            /\ lastRunId' = LastAfter(next, runId)
            /\ lastObs' = runId
            /\ pc' = IF cyc'[c].pc = "done" THEN PcAfter(c) ELSE pc
    /\ UNCHANGED <<config, started>>

\* mutant of FetchNone: without the guard of line 92 reading latestRun.id
\* throws and the invocation ends in the catch, as a failed fetch does
FetchNone_NoGuard(c) ==
    /\ Alive
    /\ cyc[c].pc = "fetch"
    /\ cyc' = [cyc EXCEPT ![c].pc = "done", ![c].outcome = "fetchError",
                          ![c].answer = "empty"]
    /\ pc' = PcAfter(c)
    /\ UNCHANGED <<config, lastRunId, started, lastObs>>

\* lines 79/89, 92: the request resolved with an empty list
FetchNone(c) ==
    /\ Alive
    /\ cyc[c].pc = "fetch"
    /\ cyc' = [cyc EXCEPT ![c].pc = "done", ![c].outcome = "norun",
                          ![c].answer = "empty"]
    /\ pc' = PcAfter(c)
    /\ UNCHANGED <<config, lastRunId, started, lastObs>>

\* lines 114-116: the request rejected (HTTP error, auth, network)
FetchFail(c) ==
    /\ Alive
    /\ cyc[c].pc = "fetch"
    /\ cyc' = [cyc EXCEPT ![c].pc = "done", ![c].outcome = "fetchError",
                          ![c].answer = "error"]
    /\ lastRunId' = OnFetchError(lastRunId)
    /\ pc' = PcAfter(c)
    /\ UNCHANGED <<config, started, lastObs>>

\* lines 69/82: the platform never answers; axios.get has no timeout
FetchHang(c) ==
    /\ Alive
    /\ cyc[c].pc = "fetch"
    /\ cyc' = [cyc EXCEPT ![c].pc = "fetchHung"]
    /\ UNCHANGED <<config, pc, lastRunId, started, lastObs>>

\* lines 155-163: the Slack post resolved or rejected
SlackSettle(c) ==
    /\ Alive
    /\ cyc[c].pc = "slack"
    /\ \E res \in {"ok", "error"} :
         LET next == AfterSlack(config, res)
             rec == [cyc[c] EXCEPT !.slackRes = res]
         IN /\ cyc' = [cyc EXCEPT ![c] = EnterSink(rec, next)]
            /\ lastRunId' = LastAfter(next, RunIdOf(cyc[c].run))
            /\ pc' = IF cyc'[c].pc = "done" THEN PcAfter(c) ELSE pc
    /\ UNCHANGED <<config, started, lastObs>>

\* line 155: the Slack endpoint never answers; axios.post has no timeout
SlackHang(c) ==
    /\ Alive
    /\ cyc[c].pc = "slack"
    /\ cyc' = [cyc EXCEPT ![c].pc = "slackHung"]
    /\ UNCHANGED <<config, pc, lastRunId, started, lastObs>>

\* lines 165-175, then 107-112: the webhook post resolved or rejected
WebhookSettle(c) ==
    /\ Alive
    /\ cyc[c].pc = "webhook"
    /\ \E res \in {"ok", "error"} :
         LET next == AfterWebhook(config, res)
             rec == [cyc[c] EXCEPT !.webhookRes = res]
         IN /\ cyc' = [cyc EXCEPT ![c] = EnterSink(rec, next)]
            /\ lastRunId' = LastAfter(next, RunIdOf(cyc[c].run))
            /\ pc' = IF cyc'[c].pc = "done" THEN PcAfter(c) ELSE pc
    /\ UNCHANGED <<config, started, lastObs>>

\* line 165: the webhook endpoint never answers
WebhookHang(c) ==
    /\ Alive
    /\ cyc[c].pc = "webhook"
    /\ cyc' = [cyc EXCEPT ![c].pc = "webhookHung"]
    /\ UNCHANGED <<config, pc, lastRunId, started, lastObs>>

\* line 123: Ctrl+C ends the process; pending continuations never run
Cancel ==
    /\ Alive
    /\ pc' = "killed"
    /\ UNCHANGED <<config, lastRunId, cyc, started, lastObs>>

\* A kill leaves every variable but pc as it is, and a behaviour of Spec may
\* stop at any state, so Next leaves Cancel out; KillNext has it, for the
\* properties that speak of cancellation.
Next ==
    \/ Start
    \/ Tick
    \/ \E c \in Cycles : FetchRun(c)
    \/ \E c \in Cycles : FetchNone(c)
    \/ \E c \in Cycles : FetchFail(c)
    \/ \E c \in Cycles : FetchHang(c)
    \/ \E c \in Cycles : SlackSettle(c)
    \/ \E c \in Cycles : SlackHang(c)
    \/ \E c \in Cycles : WebhookSettle(c)
    \/ \E c \in Cycles : WebhookHang(c)

\* The behaviours in which every poll returns within the interval: the
\* timer callback finds no earlier invocation in flight.
SerialTick ==
    /\ \A c \in Cycles : cyc[c].pc \in {"idle", "done"}
    /\ Tick

SerialNext ==
    \/ Start
    \/ SerialTick
    \/ \E c \in Cycles : FetchRun(c)
    \/ \E c \in Cycles : FetchNone(c)
    \/ \E c \in Cycles : FetchFail(c)
    \/ \E c \in Cycles : FetchHang(c)
    \/ \E c \in Cycles : SlackSettle(c)
    \/ \E c \in Cycles : SlackHang(c)
    \/ \E c \in Cycles : WebhookSettle(c)
    \/ \E c \in Cycles : WebhookHang(c)

SerialSpec == Init /\ [][SerialNext]_vars

Spec == Init /\ [][Next]_vars

TypeOK ==
    /\ config \in Configs
    /\ pc \in {"start", "exited", "initial", "watching", "done", "killed"}
    /\ lastRunId \in {ToString(i) : i \in RunIds} \cup {NullId}
    /\ \A c \in Cycles : cyc[c].pc \in
         {"idle", "fetch", "fetchHung", "slack", "slackHung", "webhook", "webhookHung", "done"}
    /\ started \in 0..MaxCycles

\* Every request eventually gets its outcome (an answer, an error, or the
\* endpoint staying silent for good), the event loop runs every ready
\* continuation, and an armed interval timer keeps firing.
KillNext == Next \/ Cancel

FairSpec ==
    /\ Init /\ [][KillNext]_vars
    /\ WF_vars(Start)
    /\ WF_vars(Tick)
    /\ \A c \in Cycles :
         /\ WF_vars(FetchRun(c) \/ FetchNone(c) \/ FetchFail(c) \/ FetchHang(c))
         /\ WF_vars(SlackSettle(c) \/ SlackHang(c))
         /\ WF_vars(WebhookSettle(c) \/ WebhookHang(c))

\* ---- shorthands for the properties ----

Observed(c) == cyc[c].run # NoRun
Alerted(c) == cyc[c].kind # "none"
InFlight(c) == cyc[c].pc \notin {"idle", "done"}
Posts(rec) == rec.slackAtt + rec.webhookAtt
NativeStatus(run) == IF config.platform = "github" THEN run.conclusion ELSE run.status

\* ---- C1 ----
\* C1: each distinct run id causes at most one alert: over all polls, at
\* most one invocation of checkPipeline calls sendAlert for a given run id.
C1_OneAlertPerRunId ==
    \A i \in RunIds :
        Cardinality({c \in Cycles : Alerted(c) /\ cyc[c].run.id = i}) <= 1

\* ---- C2 ----
\* C2: a poll that observes the same run id as the observation right before
\* it dispatches no notification, whatever the two statuses are.
C2_SameIdNeverAlerts ==
    \A c \in Cycles :
        (Observed(c) /\ cyc[c].prevObs = RunIdOf(cyc[c].run)) => ~Alerted(c) /\ Posts(cyc[c]) = 0

\* ---- C3 ----
\* C3: the step that handles the first resolved fetch of the process (no
\* observation before it) issues no post and calls no sendAlert; it finds
\* lastRunId null and leaves it equal to the observed run's id.
C3_FirstObservationSilent ==
    [][\A c \in Cycles :
         (lastObs = NullId /\ ~Observed(c) /\ cyc'[c].run # NoRun) =>
            /\ cyc'[c].kind = "none"
            /\ \A d \in Cycles : Posts(cyc'[d]) = 0
            /\ lastRunId = NullId
            /\ lastRunId' = ToString(cyc'[c].run.id)
            /\ cyc'[c].pc = "done"]_vars

\* C3 witness: a first observation was made by a poll that came after a
\* failed fetch and after an empty answer.
C3_Witness ==
    \E c \in Cycles :
        /\ Observed(c) /\ cyc[c].prevObs = NullId
        /\ lastRunId = RunIdOf(cyc[c].run)
        /\ \E d, e \in Cycles :
             d < c /\ e < c /\ cyc[d].outcome = "fetchError" /\ cyc[e].outcome = "norun"
             /\ cyc[e].fetches = 1

\* ---- C4 ----
\* C4: the step that handles a resolved fetch issues a post (calls
\* sendAlert) iff lastRunId is set, the fetched id differs from it and the
\* status is failure/failed or success; the kind is failure for
\* failure/failed and recovery for success; any other status dispatches
\* nothing; and no poll ever posts more than once to a sink.
C4_DispatchIff ==
    /\ [](\A c \in Cycles : cyc[c].slackAtt <= 1 /\ cyc[c].webhookAtt <= 1)
    /\ [][\A c \in Cycles :
         (cyc[c].pc = "fetch" /\ cyc'[c].run # NoRun) =>
            LET run == cyc'[c].run
                st == NativeStatus(run)
                idChanged == lastRunId # "" /\ ToString(run.id) # lastRunId
                isFail == st \in {"failure", "failed"}
                isPass == st = "success"
            IN /\ (Posts(cyc'[c]) = 1) <=> (idChanged /\ (isFail \/ isPass))
               /\ (Posts(cyc'[c]) = 0) <=> ~(idChanged /\ (isFail \/ isPass))
               /\ (cyc'[c].kind = "failure") <=> (idChanged /\ isFail)
               /\ (cyc'[c].kind = "recovery") <=> (idChanged /\ isPass)
               /\ \A d \in Cycles \ {c} : Posts(cyc'[d]) = Posts(cyc[d])]_vars

\* C4 witness: after the baseline one poll raised a failure alert and
\* another a recovery alert.
C4_Witness ==
    \E a, b \in Cycles :
        /\ cyc[a].kind = "failure" /\ Posts(cyc[a]) >= 1
        /\ cyc[b].kind = "recovery" /\ Posts(cyc[b]) >= 1

\* ---- C5 ----
\* C5: with both sinks configured, a dispatch posts to Slack exactly once,
\* and once the Slack post has settled (resolved or rejected) it has posted
\* to the generic webhook exactly once; nothing is posted twice.
C5_SinkIsolation ==
    \A c \in Cycles :
        (config.slackWebhook /\ config.webhookUrl /\ Alerted(c)) =>
            /\ cyc[c].slackAtt = 1
            /\ cyc[c].webhookAtt <= 1
            /\ (cyc[c].slackRes # "none") => cyc[c].webhookAtt = 1
            /\ (cyc[c].webhookRes # "none") => cyc[c].slackRes # "none"
            /\ (cyc[c].pc = "done") => (cyc[c].slackRes # "none" /\ cyc[c].webhookRes # "none")

\* C5 witness: the Slack post failed and the webhook post was made and succeeded.
C5_Witness ==
    \E c \in Cycles :
        /\ config.slackWebhook /\ config.webhookUrl /\ Alerted(c)
        /\ cyc[c].slackRes = "error" /\ cyc[c].webhookAtt = 1 /\ cyc[c].webhookRes = "ok"

\* ---- C6 ----
\* C6: a rejected post never escapes sendAlert: the step that handles the
\* rejection leaves lastRunId as it was, does not end the invocation in the
\* catch of checkPipeline, leaves the timer armed, and an invocation whose
\* posts have all settled has returned normally.
C6_DeliveryErrorSwallowed ==
    /\ [](\A c \in Cycles :
            (cyc[c].slackRes = "error" \/ cyc[c].webhookRes = "error") =>
                /\ cyc[c].outcome \in {"none", "ok"}
                /\ (cyc[c].pc = "done" => cyc[c].outcome = "ok"))
    /\ [][\A c \in Cycles :
         ((cyc[c].slackRes = "none" /\ cyc'[c].slackRes = "error")
           \/ (cyc[c].webhookRes = "none" /\ cyc'[c].webhookRes = "error"))
         => /\ lastRunId' = lastRunId
            /\ pc' = "watching"
            /\ cyc'[c].pc \in {"webhook", "done"}
            /\ (cyc'[c].pc = "done") <=>
                  (cyc'[c].webhookRes # "none" \/ ~config.webhookUrl)]_vars

\* C6 witness: after a rejected post the invocation returned normally and a
\* later poll was started.
C6_Witness ==
    \E c, d \in Cycles :
        /\ c < d
        /\ cyc[c].webhookRes = "error" /\ cyc[c].pc = "done" /\ cyc[c].outcome = "ok"
        /\ cyc[d].fetches = 1
        /\ pc = "watching"

\* ---- C7 ----
\* C7: the step that handles a rejected fetch leaves lastRunId unchanged,
\* issues no post, and with --watch leaves the interval timer armed.
C7_FetchErrorSwallowed ==
    [][\A c \in Cycles :
         (cyc[c].outcome # "fetchError" /\ cyc'[c].outcome = "fetchError") =>
            /\ lastRunId' = lastRunId
            /\ \A d \in Cycles : Posts(cyc'[d]) = Posts(cyc[d])
            /\ ~Observed(c) /\ cyc'[c].run = NoRun /\ cyc'[c].kind = "none"
            /\ cyc'[c].pc = "done"
            /\ (config.watch => pc' = "watching")
            /\ (~config.watch => pc' = "done")]_vars

\* C7 witness: a fetch failed while a baseline was recorded, the baseline is
\* still there, and the next tick started another poll.
C7_Witness ==
    \E c, d \in Cycles :
        /\ c < d
        /\ cyc[c].outcome = "fetchError"
        /\ Truthy(lastRunId)
        /\ \E b \in Cycles : b < c /\ Observed(b)
        /\ cyc[d].fetches = 1

\* ---- C8 ----
\* C8: poll cycles never overlap: at most one invocation of checkPipeline
\* is between its start and its return at any time.
C8_NoOverlap ==
    Cardinality({c \in Cycles : InFlight(c)}) <= 1

\* ---- C9 ----
\* C9: with neither webhook configured the handler exits before any
\* request: no checkPipeline invocation starts, no fetch, no post.
C9_NoSinksRejected ==
    (~config.slackWebhook /\ ~config.webhookUrl) =>
        /\ pc \in {"start", "exited"}
        /\ started = 0
        /\ \A c \in Cycles : cyc[c].fetches = 0 /\ Posts(cyc[c]) = 0 /\ cyc[c].pc = "idle"

\* C9 witness: the handler has rejected a configuration without sinks.
C9_Witness ==
    ~config.slackWebhook /\ ~config.webhookUrl /\ pc = "exited"

\* ---- C10 ----
\* C10: a request whose endpoint never answers does not stall its cycle:
\* the invocation still returns (unless the process is killed first).
C10_HungDoesNotStall ==
    \A c \in Cycles :
        (cyc[c].pc \in {"fetchHung", "slackHung", "webhookHung"})
            ~> (cyc[c].pc = "done" \/ pc = "killed")

\* ---- C11 ----
\* C11: a handler that got past the startup check has started its first
\* poll at once; without --watch no second poll is ever started; with
\* --watch polls keep being started (here: up to the explored number of
\* invocations) unless the process is killed.
C11_PollLoop ==
    /\ [](pc \in {"initial", "watching", "done"} => started >= 1)
    /\ [](~config.watch => started <= 1)
    /\ (config.watch /\ pc = "initial") ~> (started = MaxCycles \/ pc = "killed")

\* ---- C12 ----
\* C12: on an id change (lastRunId set and different from the fetched id)
\* GitHub is classified by the run's conclusion and GitLab by the
\* pipeline's status: "failure" and "failed" give a failure alert,
\* "success" a recovery alert, and any other value, a missing conclusion
\* included, gives no alert.
C12_StatusNormalization ==
    \A c \in Cycles :
        (Observed(c) /\ Truthy(cyc[c].seenLast) /\ cyc[c].seenLast # RunIdOf(cyc[c].run)) =>
            LET native == IF config.platform = "github"
                          THEN cyc[c].run.conclusion
                          ELSE cyc[c].run.status
            IN /\ native \in {"failure", "failed"} => cyc[c].kind = "failure" /\ Posts(cyc[c]) >= 1
               /\ native = "success" => cyc[c].kind = "recovery" /\ Posts(cyc[c]) >= 1
               /\ native \notin {"failure", "failed", "success"} =>
                     cyc[c].kind = "none" /\ Posts(cyc[c]) = 0

\* C12 witness: on GitHub a run concluded as "failure" raised a failure
\* alert and a later new run concluded as "cancelled" raised none.
C12_Witness ==
    \E a, b \in Cycles :
        /\ config.platform = "github"
        /\ cyc[a].run.conclusion = "failure" /\ cyc[a].kind = "failure" /\ Posts(cyc[a]) >= 1
        /\ Observed(b) /\ cyc[b].run.conclusion = "cancelled"
        /\ Truthy(cyc[b].seenLast) /\ cyc[b].seenLast # RunIdOf(cyc[b].run)
        /\ cyc[b].kind = "none"

\* ---- C13 ----
\* C13: when a poll that observed a run returns, lastRunId equals that
\* run's id, whatever the run's status: the recorded id tracks the most
\* recently observed run.
C13_TracksLatestRun ==
    [][\A c \in Cycles :
         (cyc[c].pc # "done" /\ cyc'[c].pc = "done" /\ cyc'[c].run # NoRun) =>
            lastRunId' = ToString(cyc'[c].run.id)]_vars

\* ---- C14 ----
\* C14: the step that handles an empty answer of the platform leaves
\* lastRunId unchanged and issues no post; the invocation returns at line
\* 92 without entering the catch, and the handler goes on as after any
\* other poll (timer armed with --watch).
C14_NoRunIsNoop ==
    [][\A c \in Cycles :
         (cyc[c].answer = "none" /\ cyc'[c].answer = "empty") =>
            /\ cyc'[c].outcome = "norun"
            /\ cyc'[c].pc = "done" /\ cyc'[c].run = NoRun
            /\ lastRunId' = lastRunId
            /\ \A d \in Cycles : Posts(cyc'[d]) = Posts(cyc[d])
            /\ cyc'[c].kind = "none"
            /\ (config.watch => pc' = "watching")
            /\ (~config.watch => pc' = "done")]_vars

\* C14 witness: with a baseline recorded a poll got an empty answer, the
\* baseline is still there and the next tick started another poll.
C14_Witness ==
    \E c, d \in Cycles :
        /\ c < d
        /\ cyc[c].answer = "empty" /\ cyc[c].outcome = "norun" /\ cyc[c].fetches = 1
        /\ \E b \in Cycles : b < c /\ Observed(b) /\ lastRunId = RunIdOf(cyc[b].run)
        /\ cyc[d].pc # "idle"

\* ---- C15 ----
\* C15: an invocation that called sendAlert has returned only if the post
\* to every configured sink was made and has settled (resolved or
\* rejected); while a post is pending or hung the invocation is not done.
C15_DispatchWaitsForSinks ==
    \A c \in Cycles :
        /\ (Alerted(c) /\ cyc[c].pc = "done") =>
              /\ config.slackWebhook => (cyc[c].slackAtt = 1 /\ cyc[c].slackRes # "none")
              /\ config.webhookUrl => (cyc[c].webhookAtt = 1 /\ cyc[c].webhookRes # "none")
        /\ (cyc[c].slackAtt = 1 /\ cyc[c].slackRes = "none") =>
              cyc[c].pc \in {"slack", "slackHung"}
        /\ (cyc[c].webhookAtt = 1 /\ cyc[c].webhookRes = "none") =>
              cyc[c].pc \in {"webhook", "webhookHung"}

\* C15 witness: a dispatch to both sinks has returned after the webhook
\* post was rejected and the Slack post had resolved.
C15_Witness ==
    \E c \in Cycles :
        /\ Alerted(c) /\ cyc[c].pc = "done" /\ cyc[c].outcome = "ok"
        /\ config.slackWebhook /\ config.webhookUrl
        /\ cyc[c].slackRes = "ok" /\ cyc[c].webhookRes = "error"

\* ---- C16 ----
\* C16: every started poll cycle has issued exactly one fetch request,
\* whatever the configured platform value is.
C16_OneFetchPerCycle ==
    \A c \in Cycles : cyc[c].pc # "idle" => cyc[c].fetches = 1

\* ---- C17 ----
\* C17: the Slack body a dispatch posts has color #ff0000 exactly when the
\* dispatch is a failure alert and #00ff00 exactly when it is a recovery
\* alert; the webhook body's event is that same kind and its repository is
\* "<owner>/<repo>"; the two bodies of one dispatch agree on the kind.
C17_PayloadsMatchKind ==
    [][\A c \in Cycles :
         /\ cyc'[c].slackAtt > cyc[c].slackAtt =>
               LET slack == SlackBody(c)'
               IN /\ cyc'[c].kind \in {"failure", "recovery"}
                  /\ (slack.color = "#ff0000") <=> (cyc'[c].kind = "failure")
                  /\ (slack.color = "#00ff00") <=> (cyc'[c].kind = "recovery")
                  /\ slack.repository = "acme/api"
         /\ cyc'[c].webhookAtt > cyc[c].webhookAtt =>
               LET hook == WebhookBody(c)'
                   slack == SlackBody(c)'
               IN /\ hook.event = cyc'[c].kind
                  /\ hook.event \in {"failure", "recovery"}
                  /\ hook.repository = "acme/api"
                  /\ hook.run = cyc'[c].run
                  /\ cyc'[c].run = cyc[c].run \/ cyc[c].run = NoRun
                  /\ cyc'[c].slackAtt >= 1 =>
                        ((slack.color = "#ff0000") <=> (hook.event = "failure"))]_vars

\* C17 witness: a recovery dispatch has posted a green Slack body and a
\* "recovery" webhook body.
C17_Witness ==
    \E c \in Cycles :
        /\ cyc[c].kind = "recovery"
        /\ cyc[c].slackAtt = 1 /\ SlackBody(c).color = "#00ff00"
        /\ cyc[c].webhookAtt = 1 /\ WebhookBody(c).event = "recovery"

\* ---- C18 ----
\* C18: lastRunId is write-once: it is null until the first resolved fetch
\* that carries a run, that step sets it to the run's id, and once set no
\* step of any invocation changes it or resets it to null, however the
\* invocations started by the timer interleave.
C18_LastRunIdWriteOnce ==
    /\ [](lastObs = NullId => lastRunId = NullId)
    /\ [](lastRunId # "" =>
            \E c \in Cycles : cyc[c].answer = "run" /\ cyc[c].prevObs = NullId
                              /\ lastRunId = ToString(cyc[c].run.id))
    /\ [][lastRunId # "" => lastRunId' = lastRunId]_vars

\* C18 witness: with the baseline recorded, two overlapping polls have each
\* observed another run id and returned, and lastRunId is still the baseline.
C18_Witness ==
    \E b, c, d \in Cycles :
        /\ b < c /\ c < d
        /\ Observed(b) /\ lastRunId = RunIdOf(cyc[b].run)
        /\ Observed(c) /\ cyc[c].pc = "done" /\ RunIdOf(cyc[c].run) # lastRunId
        /\ Observed(d) /\ cyc[d].pc = "done" /\ RunIdOf(cyc[d].run) # lastRunId
        /\ cyc[d].prevObs # RunIdOf(cyc[c].run)

\* ---- C19 ----
\* C19: without --watch the program never calls sendAlert and posts to no
\* sink, whatever run the platform reports.
C19_NoWatchNoAlert ==
    ~config.watch => \A c \in Cycles : cyc[c].kind = "none" /\ Posts(cyc[c]) = 0

\* C19 witness: without --watch the single poll observed a failed run and
\* the program ended without any post.
C19_Witness ==
    /\ ~config.watch /\ pc = "done" /\ started = 1
    /\ Observed(1) /\ NativeStatus(cyc[1].run) \in {"failure", "failed"}
    /\ Posts(cyc[1]) = 0
====
